---- MODULE Spec2Model ----
(***************************************************************************)
(* Model of the interactive session of rss-cli (src/src/tui): the App      *)
(* state, the key handlers of input.rs, the selection logic of state.rs,   *)
(* the render step of ui.rs and the loop of mod.rs, with the database file *)
(* of db.rs and the network fetch of feed.rs as the environment.           *)
(*                                                                         *)
(* Encodings.  Option<T> is a sequence of length 0 (None) or 1 (Some(x)).  *)
(* A String is a sequence of one-character strings.  Indices keep the      *)
(* 0-based values of the source; Get(s, i) reads a Vec at a 0-based index. *)
(***************************************************************************)
EXTENDS Integers, Sequences, FiniteSets, TLC

VARIABLES
    db_path,      \* App.db_path: the extension of the database path
    file,         \* the database file on disk
    feeds,        \* App.db.feeds
    feed_state,   \* App.feed_state.selected()
    item_state,   \* App.item_state.selected()
    focus,        \* App.focus
    mode,         \* App.mode
    input,        \* App.input
    status,       \* App.status
    pc            \* position of run_app: "draw", "poll", or how it returned

vars == <<db_path, file, feeds, feed_state, item_state, focus, mode, input,
          status, pc>>

----------------------------------------------------------------------------
(* Bounds *)

MaxInput == 3     \* longest input buffer typed
MaxFeeds == 2     \* most feeds held by the collection

(* Program constant *)

PAGE_JUMP == 5

----------------------------------------------------------------------------
(* Option, Vec and String helpers *)

None == <<>>
Some(x) == <<x>>
IsSome(o) == o # <<>>
Unwrap(o) == o[1]
UnwrapOr(o, d) == IF o = <<>> THEN d ELSE o[1]

Get(s, i) == IF i >= 0 /\ i < Len(s) THEN Some(s[i + 1]) ELSE None

\* A removal one place too far (nothing is removed after the last place).
Remove_off_by_one(s, i) == SubSeq(s, 1, i + 1) \o SubSeq(s, i + 3, Len(s))

\* Vec::remove(i)
Remove(s, i) == SubSeq(s, 1, i) \o SubSeq(s, i + 2, Len(s))

Pop(s) == IF s = <<>> THEN s ELSE SubSeq(s, 1, Len(s) - 1)
Min(a, b) == IF a < b THEN a ELSE b

IsWhitespace(c) == c = " "

RECURSIVE TrimStart(_)
TrimStart(s) ==
    IF s # <<>> /\ IsWhitespace(Head(s)) THEN TrimStart(Tail(s)) ELSE s

RECURSIVE TrimEnd(_)
TrimEnd(s) ==
    IF s # <<>> /\ IsWhitespace(s[Len(s)]) THEN TrimEnd(Pop(s)) ELSE s

\* A trim that removes nothing.
Trim_none(s) == s

\* str::trim
Trim(s) == TrimEnd(TrimStart(s))

----------------------------------------------------------------------------
(* Data: entries, fetch outcomes and database files *)

Jan      == [title |-> "January", link |-> Some("https://e/jan"),
             published |-> Some("2024-01-01T00:00:00+00:00")]
Mar      == [title |-> "March", link |-> None,
             published |-> Some("2024-03-01T00:00:00+00:00")]
Undated  == [title |-> "Untitled", link |-> Some("https://e/u"),
             published |-> None]
JanPlus1 == [title |-> "Offset", link |-> None,
             published |-> Some("2024-01-01T01:00:00+01:00")]
BadDate  == [title |-> "Bad", link |-> None,
             published |-> Some("yesterday")]

\* DateTime::parse_from_rfc3339 on the strings above: the instant, in hours
\* since 2024-01-01T00:00:00Z, or None when the string is not RFC 3339.
parse_from_rfc3339(date) ==
    CASE date = "2024-01-01T00:00:00+00:00" -> Some(0)
      [] date = "2024-01-01T01:00:00+01:00" -> Some(0)
      [] date = "2024-03-01T00:00:00+00:00" -> Some(1440)
      [] OTHER -> None

parse_published(value) ==
    IF value = None THEN None ELSE parse_from_rfc3339(Unwrap(value))

\* What fetch_feed_items can return: a title and entries whose published is
\* absent or the to_rfc3339 of a date, or one of its three errors.
FetchOk == {
    [ok |-> TRUE, err |-> "", title |-> None, items |-> <<>>],
    [ok |-> TRUE, err |-> "", title |-> Some("Example"),
     items |-> <<Jan, Mar>>] }

FetchErr == {
    [ok |-> FALSE, err |-> e, title |-> None, items |-> <<>>] :
        e \in {"failed to fetch feed", "failed to read feed response",
               "failed to parse feed"} }

fetch_feed_items == FetchOk \cup FetchErr

TypedChars == {"q", " "}

RECURSIVE Strings(_)
Strings(n) ==
    IF n = 0 THEN {<<>>}
    ELSE Strings(n - 1) \cup
         {Append(s, c) : s \in {t \in Strings(n - 1) : Len(t) = n - 1},
                         c \in TypedChars}

\* The urls at which the network serves a feed; the fetch of any other url
\* fails.
FeedUrls == {<<"q">>, <<"q", "q">>, <<"q", " ", "q">>}

UniqueUrls(fs) ==
    \A i, j \in 1..Len(fs) : fs[i].url = fs[j].url => i = j

\* The collections of up to MaxFeeds feeds with distinct urls and contents
\* (title and items) drawn from cs.
CollectionsOf(cs) ==
    LET FeedRecords == {[title |-> c.title, url |-> u, items |-> c.items] :
                           c \in cs, u \in FeedUrls}
    IN {fs \in UNION {[1..n -> FeedRecords] : n \in 0..MaxFeeds} :
           UniqueUrls(fs)}

\* Contents a feed record of a database file has when a session stored it.
FetchedContents == {[title |-> r.title, items |-> r.items] : r \in FetchOk}

\* Contents of a hand-written database file: published is not validated.
WrittenContents ==
    FetchedContents \cup
    {[title |-> Some("Other"), items |-> <<BadDate, JanPlus1, Undated>>]}

\* The collections a database file holds at session start.
Collections == CollectionsOf(FetchedContents)

Supported(ext) == ext \in {"json", "yml", "yaml"}
DbPaths == {"json", "txt"}

Absent == [exists |-> FALSE, valid |-> FALSE, feeds |-> <<>>]
Stored(fs) == [exists |-> TRUE, valid |-> TRUE, feeds |-> fs]
Truncated == [exists |-> TRUE, valid |-> FALSE, feeds |-> <<>>]

----------------------------------------------------------------------------
(* db.rs *)

\* The outcomes save_db can have for a path: the extension is rejected
\* before anything is written, or fs::write succeeds, or fails and leaves
\* the old file or a truncated one.
SaveOutcomes(ext) ==
    IF Supported(ext) THEN {"ok", "write_error", "write_truncated"}
    ELSE {"unsupported"}

\* A fetch outcome with the outcome of the save that follows it: the save is
\* reached only after a successful fetch.
FetchOutcomes(ext) ==
    {o \in fetch_feed_items \X (SaveOutcomes(ext) \cup {"none"}) :
        o[1].ok <=> o[2] # "none"}

\* save_db that reports success without writing the file.
save_db_unwritten(old, fs, sv) == old

\* The file after save_db(path, db) with outcome sv.
save_db(old, fs, sv) ==
    CASE sv = "ok" -> Stored(fs)
      [] sv = "write_truncated" -> Truncated
      [] OTHER -> old

----------------------------------------------------------------------------
(* state.rs *)

\* clamp_index that wraps around at both ends.
clamp_index_wrap(index, len) == index % len

clamp_index(index, len) ==
    LET last_ == IF len = 0 THEN 0 ELSE len - 1 IN
    IF index < 0 THEN 0
    ELSE IF index > last_ THEN last_
    ELSE index

\* selected_feed with a saturating index - 1: index 0 gives the first feed.
selected_feed_saturating(fs, fsel) ==
    IF fsel = None THEN None
    ELSE Get(fs, IF Unwrap(fsel) = 0 THEN 0 ELSE Unwrap(fsel) - 1)

selected_feed(fs, fsel) ==
    IF fsel = None THEN None
    ELSE IF Unwrap(fsel) = 0 THEN None
    ELSE Get(fs, Unwrap(fsel) - 1)

is_all_selected(fsel) == UnwrapOr(fsel, 0) = 0

ensure_item_selection(isel, len) ==
    IF len = 0 THEN None
    ELSE Some(Min(UnwrapOr(isel, 0), len - 1))

RECURSIVE SumLens(_)
SumLens(fs) ==
    IF fs = <<>> THEN 0 ELSE Len(Head(fs).items) + SumLens(Tail(fs))

\* current_items_count that always counts the items of all feeds.
current_items_count_all(fs, fsel) == SumLens(fs)

current_items_count(fs, fsel) ==
    LET feed == selected_feed(fs, fsel) IN
    IF IsSome(feed) THEN Len(Unwrap(feed).items) ELSE SumLens(fs)

DisplayItem(feed, item) ==
    [title |-> item.title,
     feed_title |-> UnwrapOr(feed.title, "Untitled"),
     published |-> item.published,
     published_key |-> parse_published(item.published),
     link |-> item.link]

\* The entries of a feed without those that have no published date.
FeedItems_dated(feed) ==
    LET all == [i \in 1..Len(feed.items) |-> DisplayItem(feed, feed.items[i])]
        Dated(d) == IsSome(d.published)
    IN SelectSeq(all, Dated)

\* The entries of a feed as the view shows them.
FeedItems(feed) ==
    [i \in 1..Len(feed.items) |-> DisplayItem(feed, feed.items[i])]

RECURSIVE FlatMap(_)
FlatMap(fs) ==
    IF fs = <<>> THEN <<>> ELSE FeedItems(Head(fs)) \o FlatMap(Tail(fs))

\* The comparison with the dated entries in ascending order.
compare_published_asc(a, b) ==
    CASE IsSome(a.published_key) /\ IsSome(b.published_key) ->
            IF Unwrap(a.published_key) < Unwrap(b.published_key) THEN "Less"
            ELSE IF Unwrap(a.published_key) > Unwrap(b.published_key)
                 THEN "Greater"
            ELSE "Equal"
      [] IsSome(a.published_key) /\ ~IsSome(b.published_key) -> "Less"
      [] ~IsSome(a.published_key) /\ IsSome(b.published_key) -> "Greater"
      [] OTHER -> "Equal"

compare_published_desc(a, b) ==
    CASE IsSome(a.published_key) /\ IsSome(b.published_key) ->
            IF Unwrap(b.published_key) < Unwrap(a.published_key) THEN "Less"
            ELSE IF Unwrap(b.published_key) > Unwrap(a.published_key)
                 THEN "Greater"
            ELSE "Equal"
      [] IsSome(a.published_key) /\ ~IsSome(b.published_key) -> "Less"
      [] ~IsSome(a.published_key) /\ IsSome(b.published_key) -> "Greater"
      [] OTHER -> "Equal"

\* slice::sort_by is a stable sort: x goes behind every element that does
\* not compare Greater than it.
RECURSIVE InsertStable(_, _)
InsertStable(s, x) ==
    IF s = <<>> THEN <<x>>
    ELSE IF compare_published_desc(Head(s), x) = "Greater" THEN <<x>> \o s
    ELSE <<Head(s)>> \o InsertStable(Tail(s), x)

RECURSIVE sort_by(_)
sort_by(s) ==
    IF s = <<>> THEN <<>> ELSE InsertStable(sort_by(Pop(s)), s[Len(s)])

current_items(fs, fsel) ==
    LET feed == selected_feed(fs, fsel) IN
    IF IsSome(feed) THEN FeedItems(Unwrap(feed)) ELSE sort_by(FlatMap(fs))

\* A search that never matches.
Position_none(fs, url) == None

\* iter().position(|feed| feed.url == url)
Position(fs, url) ==
    IF \E i \in 1..Len(fs) : fs[i].url = url
    THEN Some((CHOOSE i \in 1..Len(fs) :
                  /\ fs[i].url = url
                  /\ \A j \in 1..(i - 1) : fs[j].url # url) - 1)
    ELSE None

\* upsert_feed that replaces the title of the feed found and keeps its items.
UpsertFeeds_title_only(fs, url, title, items) ==
    LET pos == Position(fs, url) IN
    IF IsSome(pos)
    THEN [fs EXCEPT ![Unwrap(pos) + 1].title = title]
    ELSE Append(fs, [title |-> title, url |-> url, items |-> items])

\* upsert_feed that pushes without looking for the url.
UpsertFeeds_push(fs, url, title, items) ==
    Append(fs, [title |-> title, url |-> url, items |-> items])

\* The feeds after the find/replace or push of upsert_feed.
UpsertFeeds(fs, url, title, items) ==
    LET pos == Position(fs, url) IN
    IF IsSome(pos)
    THEN [fs EXCEPT ![Unwrap(pos) + 1] =
             [title |-> title, url |-> url, items |-> items]]
    ELSE Append(fs, [title |-> title, url |-> url, items |-> items])

\* upsert_feed that leaves the feed selection alone.
UpsertFeedState_keep(fs, fsel, url) == fsel

\* The feed selection after upsert_feed.
UpsertFeedState(fs, fsel, url) ==
    LET index == Position(fs, url) IN
    IF IsSome(index) THEN Some(Unwrap(index) + 1) ELSE fsel

\* The item selection after upsert_feed.
UpsertItemState(fs, isel, url) ==
    LET index == Position(fs, url) IN
    IF IsSome(index)
    THEN ensure_item_selection(isel, Len(fs[Unwrap(index) + 1].items))
    ELSE isel

\* App::upsert_feed with save outcome sv; the caller decides pc and status.
upsert_feed(url, title, items, sv) ==
    LET fs == UpsertFeeds(feeds, url, title, items) IN
    /\ feeds' = fs
    /\ feed_state' = UpsertFeedState(fs, feed_state, url)
    /\ item_state' = UpsertItemState(fs, item_state, url)
    /\ file' = save_db(file, fs, sv)

MoveFeedState(fs, fsel, delta) ==
    Some(clamp_index(UnwrapOr(fsel, 0) + delta, Len(fs) + 1))

move_feed(delta) ==
    LET next == MoveFeedState(feeds, feed_state, delta) IN
    /\ feed_state' = next
    /\ item_state' =
          ensure_item_selection(item_state, current_items_count(feeds, next))

\* move_item without the test for an empty view.
MoveItemState_unchecked(fs, fsel, isel, delta) ==
    Some(clamp_index(UnwrapOr(isel, 0) + delta,
                     current_items_count(fs, fsel)))

MoveItemState(fs, fsel, isel, delta) ==
    LET count == current_items_count(fs, fsel) IN
    IF count = 0 THEN None
    ELSE Some(clamp_index(UnwrapOr(isel, 0) + delta, count))

move_item(delta) ==
    /\ item_state' = MoveItemState(feeds, feed_state, item_state, delta)
    /\ UNCHANGED feed_state

\* move_selection with the panes exchanged.
move_selection_swapped(delta) ==
    IF focus = "Feeds" THEN move_item(delta) ELSE move_feed(delta)

move_selection(delta) ==
    IF focus = "Feeds" THEN move_feed(delta) ELSE move_item(delta)

----------------------------------------------------------------------------
(* Key events (crossterm KeyEvent: a code and the control modifier) *)

Chars == {"q", "a", "r", "d", "k", "j", " "}
Specials == {"Esc", "Enter", "Backspace", "Tab", "Right", "Left", "Up",
             "Down", "PageUp", "PageDown", "F1"}

\* The key events delivered; the control modifier is held with the typed
\* characters only.
Keys ==
    {[code |-> "Char", ch |-> c, ctrl |-> FALSE] : c \in Chars}
    \cup {[code |-> "Char", ch |-> c, ctrl |-> TRUE] : c \in TypedChars}
    \cup {[code |-> s, ch |-> "", ctrl |-> FALSE] : s \in Specials}

IsChar(k, c) == k.code = "Char" /\ k.ch = c

Status(text, arg) == [text |-> text, arg |-> arg]

\* format!("Error: {err}"), the error named by its context.
ErrorStatus(r) == Status("Error: " \o r.err, <<>>)

Running == pc \in {"draw", "poll"}

----------------------------------------------------------------------------
(* App::new *)

Init ==
    /\ db_path \in DbPaths
    /\ file \in {Absent} \cup
                (IF Supported(db_path) THEN {Stored(c) : c \in Collections}
                 ELSE {})
    /\ feeds = file.feeds
    /\ feed_state = Some(0)
    /\ item_state = None
    /\ focus = "Feeds"
    /\ mode = "Normal"
    /\ input = <<>>
    /\ status = Status("", <<>>)
    /\ pc = "draw"

----------------------------------------------------------------------------
(* ui.rs and mod.rs *)

\* A draw_ui that does not call ensure_item_selection.
DrawItemState_skip(fs, fsel, isel) == isel

\* The item selection after draw_ui.
DrawItemState(fs, fsel, isel) ==
    ensure_item_selection(isel, Len(current_items(fs, fsel)))

\* terminal.draw(draw_ui) of run_app, starting a loop iteration.
Draw ==
    /\ pc = "draw"
    /\ item_state' = DrawItemState(feeds, feed_state, item_state)
    /\ pc' = "poll"
    /\ UNCHANGED <<db_path, file, feeds, feed_state, focus, mode, input,
                   status>>

\* terminal.draw fails, before or after draw_ui ran.
DrawError ==
    /\ pc = "draw"
    /\ \E drawn \in BOOLEAN :
          item_state' = IF drawn
                        THEN DrawItemState(feeds, feed_state, item_state)
                        ELSE item_state
    /\ pc' = "io_error"
    /\ UNCHANGED <<db_path, file, feeds, feed_state, focus, mode, input,
                   status>>

\* event::poll or event::read fails.
PollError ==
    /\ pc = "poll"
    /\ pc' = "io_error"
    /\ UNCHANGED <<db_path, file, feeds, feed_state, item_state, focus, mode,
                   input, status>>

\* The poll times out, or delivers an event that is not a key.
PollIdle ==
    /\ pc = "poll"
    /\ pc' = "draw"
    /\ UNCHANGED <<db_path, file, feeds, feed_state, item_state, focus, mode,
                   input, status>>

----------------------------------------------------------------------------
(* input.rs: handle_normal, one action per arm of its match on key k *)

Handling(m) == pc = "poll" /\ mode = m

\* A quit arm that returns Ok(false).
NormalQuit_continue(k) ==
    /\ Handling("Normal")
    /\ IsChar(k, "q") \/ k.code = "Esc"
    /\ pc' = "draw"
    /\ UNCHANGED <<db_path, file, feeds, feed_state, item_state, focus, mode,
                   input, status>>

NormalQuit(k) ==
    /\ Handling("Normal")
    /\ IsChar(k, "q") \/ k.code = "Esc"
    /\ pc' = "quit"
    /\ UNCHANGED <<db_path, file, feeds, feed_state, item_state, focus, mode,
                   input, status>>

\* An add arm that sets no prompt.
NormalAdd_silent(k) ==
    /\ Handling("Normal")
    /\ IsChar(k, "a")
    /\ mode' = "AddUrl"
    /\ input' = <<>>
    /\ pc' = "draw"
    /\ UNCHANGED <<db_path, file, feeds, feed_state, item_state, focus,
                   status>>

NormalAdd(k) ==
    /\ Handling("Normal")
    /\ IsChar(k, "a")
    /\ mode' = "AddUrl"
    /\ input' = <<>>
    /\ status' = Status("Enter feed URL.", <<>>)
    /\ pc' = "draw"
    /\ UNCHANGED <<db_path, file, feeds, feed_state, item_state, focus>>

\* A handler that drops the error of the save.
AfterSave_ignore(sv) == "draw"

\* Where a handler goes after a save with outcome sv: on, or out with the
\* error.
AfterSave(sv) == IF sv = "ok" THEN "draw" ELSE "save_error"

\* A handler that stores the empty result of a failed fetch.
FetchAndUpsert_always(url, r, sv, verb) ==
    /\ upsert_feed(url, r.title, r.items, sv)
    /\ pc' = IF sv = "ok" THEN "draw" ELSE "save_error"
    /\ status' = IF r.ok THEN Status(verb, url) ELSE Status("Error: " \o r.err, <<>>)

\* The part of both handlers from fetch_feed_items on: the fetch of url with
\* outcome r, then upsert_feed with save outcome sv, and the status.
FetchAndUpsert(url, r, sv, verb) ==
    IF r.ok
    THEN /\ upsert_feed(url, r.title, r.items, sv)
         /\ pc' = AfterSave(sv)
         /\ status' = IF sv = "ok" THEN Status(verb, url) ELSE status
    ELSE /\ status' = ErrorStatus(r)
         /\ pc' = "draw"
         /\ UNCHANGED <<file, feeds, feed_state, item_state>>

\* The refresh arm with a feed selected, fetch outcome r and save outcome sv.
RefreshFetch(k, r, sv) ==
    /\ Handling("Normal")
    /\ IsChar(k, "r")
    /\ IsSome(selected_feed(feeds, feed_state))
    /\ FetchAndUpsert(Unwrap(selected_feed(feeds, feed_state)).url, r, sv,
                      "Refreshed ")
    /\ UNCHANGED <<db_path, focus, mode, input>>

NormalRefresh(k) ==
    /\ Handling("Normal")
    /\ IsChar(k, "r")
    /\ IF IsSome(selected_feed(feeds, feed_state))
       THEN \E o \in FetchOutcomes(db_path) : RefreshFetch(k, o[1], o[2])
       ELSE /\ status' = Status("Select a feed to refresh.", <<>>)
            /\ pc' = "draw"
            /\ UNCHANGED <<db_path, file, feeds, feed_state, item_state, focus,
                           mode, input>>

\* The delete arm leaving the feed selection where it was.
DeleteFeedState_keep(fs, feed_index) == Some(feed_index + 1)

\* The delete arm selecting the feed before the removed one.
DeleteFeedState_before(fs, feed_index) ==
    IF fs = <<>> THEN Some(0) ELSE Some(Min(feed_index, Len(fs)))

\* The feed selection after the removal that left fs, of the feed at
\* feed_index.
DeleteFeedState(fs, feed_index) ==
    IF fs = <<>> THEN Some(0) ELSE Some(Min(feed_index + 1, Len(fs)))

\* The item selection after the removal that left fs.
DeleteItemState(fs, isel) == IF fs = <<>> THEN None ELSE isel

\* The removal branch of the delete arm, with save outcome sv.
DeleteFeed(feed_index, sv) ==
    LET url == feeds[feed_index + 1].url
        fs == Remove(feeds, feed_index)
    IN /\ feeds' = fs
       /\ feed_state' = DeleteFeedState(fs, feed_index)
       /\ item_state' = DeleteItemState(fs, item_state)
       /\ file' = save_db(file, fs, sv)
       /\ pc' = AfterSave(sv)
       /\ status' = IF sv = "ok" THEN Status("Removed ", url) ELSE status

\* The delete arm with a feed of the collection selected.
Delete(k, sv) ==
    /\ Handling("Normal")
    /\ IsChar(k, "d")
    /\ IsSome(feed_state)
    /\ Unwrap(feed_state) # 0
    /\ Unwrap(feed_state) - 1 < Len(feeds)
    /\ DeleteFeed(Unwrap(feed_state) - 1, sv)
    /\ UNCHANGED <<db_path, focus, mode, input>>

\* The delete arm with a saturating index - 1: at index 0 it removes the
\* first feed.
NormalDelete_saturating(k) ==
    /\ Handling("Normal")
    /\ IsChar(k, "d")
    /\ LET index == UnwrapOr(feed_state, 0)
           feed_index == IF index = 0 THEN 0 ELSE index - 1
       IN IF feed_index < Len(feeds)
          THEN /\ \E sv \in SaveOutcomes(db_path) : DeleteFeed(feed_index, sv)
               /\ UNCHANGED <<db_path, focus, mode, input>>
          ELSE /\ pc' = "draw"
               /\ UNCHANGED <<db_path, file, feeds, feed_state, item_state,
                              focus, mode, input, status>>

NormalDelete(k) ==
    /\ Handling("Normal")
    /\ IsChar(k, "d")
    /\ IF feed_state = None
       THEN /\ pc' = "draw"
            /\ UNCHANGED <<db_path, file, feeds, feed_state, item_state, focus,
                           mode, input, status>>
       ELSE IF Unwrap(feed_state) = 0
       THEN /\ status' = Status("Select a feed to delete.", <<>>)
            /\ pc' = "draw"
            /\ UNCHANGED <<db_path, file, feeds, feed_state, item_state, focus,
                           mode, input>>
       ELSE IF Unwrap(feed_state) - 1 < Len(feeds)
       THEN \E sv \in SaveOutcomes(db_path) : Delete(k, sv)
       ELSE /\ pc' = "draw"
            /\ UNCHANGED <<db_path, file, feeds, feed_state, item_state, focus,
                           mode, input, status>>

\* The focus arms with Right on the feed pane.
FocusOf_right_feeds(k) == IF k.code = "Tab" THEN "Items" ELSE "Feeds"

FocusOf(k) == IF k.code = "Left" THEN "Feeds" ELSE "Items"

NormalFocus(k) ==
    /\ Handling("Normal")
    /\ k.code \in {"Tab", "Right", "Left"}
    /\ focus' = FocusOf(k)
    /\ pc' = "draw"
    /\ UNCHANGED <<db_path, file, feeds, feed_state, item_state, mode, input,
                   status>>

IsMove(k) ==
    \/ k.code \in {"Up", "Down", "PageUp", "PageDown"}
    \/ IsChar(k, "k")
    \/ IsChar(k, "j")

MoveKeys == {k \in Keys : IsMove(k)}

Delta(k) ==
    CASE k.code = "Up" -> -1
      [] k.code = "Down" -> 1
      [] k.code = "PageUp" -> -PAGE_JUMP
      [] k.code = "PageDown" -> PAGE_JUMP
      [] IsChar(k, "k") -> -1
      [] IsChar(k, "j") -> 1

NormalMove(k) ==
    /\ Handling("Normal")
    /\ IsMove(k)
    /\ move_selection(Delta(k))
    /\ pc' = "draw"
    /\ UNCHANGED <<db_path, file, feeds, focus, mode, input, status>>

IsNormalKey(k) ==
    \/ IsMove(k)
    \/ k.code \in {"Esc", "Tab", "Right", "Left"}
    \/ k.code = "Char" /\ k.ch \in {"q", "a", "r", "d"}

\* A last arm that reports the key.
NormalOther_reports(k) ==
    /\ Handling("Normal")
    /\ ~IsNormalKey(k)
    /\ status' = Status("Unknown key.", <<>>)
    /\ pc' = "draw"
    /\ UNCHANGED <<db_path, file, feeds, feed_state, item_state, focus, mode,
                   input>>

NormalOther(k) ==
    /\ Handling("Normal")
    /\ ~IsNormalKey(k)
    /\ pc' = "draw"
    /\ UNCHANGED <<db_path, file, feeds, feed_state, item_state, focus, mode,
                   input, status>>

\* handle_normal on key k: the arm of the match that takes it.
handle_normal(k) ==
    \/ NormalQuit(k)
    \/ NormalAdd(k)
    \/ NormalRefresh(k)
    \/ NormalDelete(k)
    \/ NormalFocus(k)
    \/ NormalMove(k)
    \/ NormalOther(k)

----------------------------------------------------------------------------
(* input.rs: handle_add_url, one action per arm of its match on key k *)

\* An Esc arm that clears the buffer and stays in AddUrl mode.
AddUrlEsc_stays(k) ==
    /\ Handling("AddUrl")
    /\ k.code = "Esc"
    /\ input' = <<>>
    /\ status' = Status("Add cancelled.", <<>>)
    /\ pc' = "draw"
    /\ UNCHANGED <<db_path, file, feeds, feed_state, item_state, focus, mode>>

\* An Esc arm that keeps the buffer.
AddUrlEsc_keeps_buffer(k) ==
    /\ Handling("AddUrl")
    /\ k.code = "Esc"
    /\ mode' = "Normal"
    /\ status' = Status("Add cancelled.", <<>>)
    /\ pc' = "draw"
    /\ UNCHANGED <<db_path, file, feeds, feed_state, item_state, focus,
                   input>>

AddUrlEsc(k) ==
    /\ Handling("AddUrl")
    /\ k.code = "Esc"
    /\ mode' = "Normal"
    /\ input' = <<>>
    /\ status' = Status("Add cancelled.", <<>>)
    /\ pc' = "draw"
    /\ UNCHANGED <<db_path, file, feeds, feed_state, item_state, focus>>

\* The collection is kept within MaxFeeds: the fetch of a new url succeeds
\* only while there is room.
HasRoom(fs, url) == IsSome(Position(fs, url)) \/ Len(fs) < MaxFeeds

\* An Enter arm that clears the buffer and the mode after upsert_feed, which
\* a failed save returns from.
AddFetch_late_clear(k, r, sv) ==
    /\ Handling("AddUrl")
    /\ k.code = "Enter"
    /\ Trim(input) # <<>>
    /\ r.ok => Trim(input) \in FeedUrls /\ HasRoom(feeds, Trim(input))
    /\ FetchAndUpsert(Trim(input), r, sv, "Added ")
    /\ input' = IF r.ok /\ sv # "ok" THEN input ELSE <<>>
    /\ mode' = IF r.ok /\ sv # "ok" THEN mode ELSE "Normal"
    /\ UNCHANGED <<db_path, focus>>

\* The Enter arm with a non-empty url, fetch outcome r and save outcome sv.
AddFetch(k, r, sv) ==
    /\ Handling("AddUrl")
    /\ k.code = "Enter"
    /\ Trim(input) # <<>>
    /\ r.ok => Trim(input) \in FeedUrls /\ HasRoom(feeds, Trim(input))
    /\ FetchAndUpsert(Trim(input), r, sv, "Added ")
    /\ input' = <<>>
    /\ mode' = "Normal"
    /\ UNCHANGED <<db_path, focus>>

AddUrlEnter(k) ==
    /\ Handling("AddUrl")
    /\ k.code = "Enter"
    /\ IF Trim(input) = <<>>
       THEN /\ input' = <<>>
            /\ mode' = "Normal"
            /\ status' = Status("URL cannot be empty.", <<>>)
            /\ pc' = "draw"
            /\ UNCHANGED <<db_path, file, feeds, feed_state, item_state, focus>>
       ELSE \E o \in FetchOutcomes(db_path) : AddFetch(k, o[1], o[2])

AddUrlBackspace(k) ==
    /\ Handling("AddUrl")
    /\ k.code = "Backspace"
    /\ input' = Pop(input)
    /\ pc' = "draw"
    /\ UNCHANGED <<db_path, file, feeds, feed_state, item_state, focus, mode,
                   status>>

\* A Char arm that does not look at the modifiers.
PushChar_always(buf, k) == Append(buf, k.ch)

\* The input after KeyCode::Char(ch).
PushChar(buf, k) == IF k.ctrl THEN buf ELSE Append(buf, k.ch)

\* A Char arm that quits on q as handle_normal does.
AddUrlChar_quits(k) ==
    /\ Handling("AddUrl")
    /\ k.code = "Char"
    /\ k.ch \in TypedChars
    /\ k.ctrl \/ Len(input) < MaxInput
    /\ input' = IF k.ch = "q" THEN input ELSE PushChar(input, k)
    /\ pc' = IF k.ch = "q" THEN "quit" ELSE "draw"
    /\ UNCHANGED <<db_path, file, feeds, feed_state, item_state, focus, mode,
                   status>>

\* The characters typed into the buffer are drawn from TypedChars, and the
\* buffer is kept within MaxInput.
AddUrlChar(k) ==
    /\ Handling("AddUrl")
    /\ k.code = "Char"
    /\ k.ch \in TypedChars
    /\ k.ctrl \/ Len(input) < MaxInput
    /\ input' = PushChar(input, k)
    /\ pc' = "draw"
    /\ UNCHANGED <<db_path, file, feeds, feed_state, item_state, focus, mode,
                   status>>

IsAddUrlKey(k) == k.code \in {"Esc", "Enter", "Backspace", "Char"}

AddUrlOther(k) ==
    /\ Handling("AddUrl")
    /\ ~IsAddUrlKey(k)
    /\ pc' = "draw"
    /\ UNCHANGED <<db_path, file, feeds, feed_state, item_state, focus, mode,
                   input, status>>

\* handle_add_url on key k: the arm of the match that takes it.
handle_add_url(k) ==
    \/ AddUrlEsc(k)
    \/ AddUrlEnter(k)
    \/ AddUrlBackspace(k)
    \/ AddUrlChar(k)
    \/ AddUrlOther(k)

----------------------------------------------------------------------------

Next ==
    \/ Draw
    \/ DrawError
    \/ PollError
    \/ PollIdle
    \/ \E k \in Keys : NormalQuit(k)
    \/ \E k \in Keys : NormalAdd(k)
    \/ \E k \in Keys : NormalRefresh(k)
    \/ \E k \in Keys : NormalDelete(k)
    \/ \E k \in Keys : NormalFocus(k)
    \/ \E k \in Keys : NormalMove(k)
    \/ \E k \in Keys : NormalOther(k)
    \/ \E k \in Keys : AddUrlEsc(k)
    \/ \E k \in Keys : AddUrlEnter(k)
    \/ \E k \in Keys : AddUrlBackspace(k)
    \/ \E k \in Keys : AddUrlChar(k)
    \/ \E k \in Keys : AddUrlOther(k)

Spec == Init /\ [][Next]_vars

\* A session opened on a hand-written database file and only browsed.
InitView ==
    /\ db_path = "json"
    /\ file \in {Stored(c) : c \in CollectionsOf(WrittenContents)}
    /\ feeds = file.feeds
    /\ feed_state = Some(0)
    /\ item_state = None
    /\ focus = "Feeds"
    /\ mode = "Normal"
    /\ input = <<>>
    /\ status = Status("", <<>>)
    /\ pc = "draw"

NextView ==
    \/ Draw
    \/ PollIdle
    \/ \E k \in Keys : NormalQuit(k)
    \/ \E k \in Keys : NormalFocus(k)
    \/ \E k \in Keys : NormalMove(k)
    \/ \E k \in Keys : NormalOther(k)

SpecView == InitView /\ [][NextView]_vars

----------------------------------------------------------------------------
(* Properties *)

\* What a load of the database file would give: the stored collection, or
\* the empty collection when there is no file.
Persisted == IF file.exists THEN file.feeds ELSE <<>>

FileReadable == file.exists => file.valid

\* C1: while the session runs (at every render and at every poll for the
\* next key) the persisted collection equals the collection in memory: no
\* add, refresh or delete is held in memory without having been written.
C1_PersistedEqualsMemory ==
    Running => FileReadable /\ Persisted = feeds

\* C1: a feed was added in this session and the file holds the collection.
C1_Witness ==
    /\ pc = "draw"
    /\ status.text = "Added "
    /\ file = Stored(feeds)
    /\ Len(feeds) = 2

Clamp(x, lo, hi) == IF x < lo THEN lo ELSE IF x > hi THEN hi ELSE x

\* C3: a movement key handled with the focus on the feed pane sets the feed
\* index to clamp(current + delta, 0, feedCount), for delta -5, -1, 1 and 5.
C3_FeedMoveClamps ==
    [][Handling("Normal") /\ focus = "Feeds" =>
          \A k \in MoveKeys :
              NormalMove(k) =>
              /\ feed_state' =
                    Some(Clamp(UnwrapOr(feed_state, 0) + Delta(k), 0,
                               Len(feeds)))
              /\ Unwrap(feed_state') \in 0..Len(feeds)]_vars

\* C3: the feed selection was moved onto the last of two feeds (no status
\* has been set, so no add, refresh or delete selected it).
C3_Witness ==
    /\ pc = "draw"
    /\ focus = "Feeds"
    /\ status.text = ""
    /\ Len(feeds) = 2
    /\ feed_state = Some(2)

\* The item selection that is valid for a view of n items, from previous
\* selection prev: none for an empty view, else prev (0 if none) clamped.
Revalidated(prev, n) ==
    IF n = 0 THEN None ELSE Some(Clamp(UnwrapOr(prev, 0), 0, n - 1))

ValidItemSelection(isel, n) ==
    IF n = 0 THEN isel = None ELSE IsSome(isel) /\ Unwrap(isel) \in 0..(n - 1)

\* C4: after a movement key handled with the focus on the feed pane, the
\* item selection is none if the item view of the new feed selection is
\* empty, and else the previous item index (0 if none) clamped to the
\* view's length - 1.
C4_FeedMoveRevalidatesItem ==
    [][Handling("Normal") /\ focus = "Feeds" =>
          \A k \in MoveKeys :
              NormalMove(k) =>
              LET n == Len(current_items(feeds', feed_state')) IN
              /\ item_state' = Revalidated(item_state, n)
              /\ ValidItemSelection(item_state', n)]_vars

\* C4: the feed selection was moved onto the first of two feeds of two
\* items, and the item index is that of its last item.
C4_Witness ==
    /\ pc = "draw"
    /\ focus = "Feeds"
    /\ status.text = ""
    /\ Len(feeds) = 2
    /\ feed_state = Some(1)
    /\ Len(feeds[1].items) = 2
    /\ Len(feeds[2].items) = 2
    /\ item_state = Some(1)

RefreshKeys == {k \in Keys : IsChar(k, "r")}
DeleteKeys == {k \in Keys : IsChar(k, "d")}
EnterKeys == {k \in Keys : k.code = "Enter"}

\* P(r, sv) holds of the step if it is the add or the refresh of a fetch
\* with an outcome r of rs and a save with an outcome sv of svs.
AfterFetch(rs, svs, P(_, _)) ==
    /\ Handling("Normal") =>
          \A k \in RefreshKeys, r \in rs, sv \in svs :
              RefreshFetch(k, r, sv) => P(r, sv)
    /\ Handling("AddUrl") =>
          \A k \in EnterKeys, r \in rs, sv \in svs :
              AddFetch(k, r, sv) => P(r, sv)

\* P(sv) holds of the step if it is the delete of the selected feed with a
\* save of an outcome sv of svs.
AfterDelete(svs, P(_)) ==
    Handling("Normal") =>
        \A k \in DeleteKeys, sv \in svs :
            Delete(k, sv) => P(sv)

\* C5 (as claimed): right after each successful add, refresh or delete the
\* item selection is none if the item view of the selected feed is empty,
\* and else an index below the view's length.
C5_RevalidatedAfterEdit ==
    [][LET Valid ==
               ValidItemSelection(item_state',
                                  Len(current_items(feeds', feed_state')))
           ValidF(r, sv) == Valid
           ValidD(sv) == Valid
       IN /\ AfterFetch(FetchOk, {"ok"}, ValidF)
          /\ AfterDelete({"ok"}, ValidD)
      ]_vars

\* C6: after a delete with a feed of the collection selected, if the
\* collection is empty the feed index is 0 and the item selection none; else
\* the feed index is min(removedIndex + 1, newFeedCount), which selects the
\* feed that followed the removed one, or the new last feed if none did.
C6_SelectionAfterDelete ==
    [][LET removed == Unwrap(feed_state) - 1
           count == Len(feeds')
           Selected(sv) ==
               IF count = 0
               THEN feed_state' = Some(0) /\ item_state' = None
               ELSE /\ feed_state' =
                         Some(IF removed + 1 < count THEN removed + 1
                              ELSE count)
                    /\ selected_feed(feeds', feed_state') =
                         Some(IF removed + 1 < Len(feeds)
                              THEN feeds[removed + 2]
                              ELSE feeds[removed])
       IN AfterDelete(SaveOutcomes(db_path), Selected)
      ]_vars

\* C6: the first of two feeds was deleted and the feed that followed it is
\* selected.
C6_Witness ==
    /\ pc = "draw"
    /\ status.text = "Removed "
    /\ Len(feeds) = 1
    /\ feed_state = Some(1)
    /\ feeds[1].url # status.arg

\* The items of view s whose parsed timestamp is c, in the order of s.
WithKey(s, c) ==
    LET Test(d) == d.published_key = c IN SelectSeq(s, Test)

\* C7: with feed index 0 the item view holds the entries of all feeds,
\* the dated ones first and in descending order of their timestamp, and the
\* entries of equal timestamp, as those without a valid timestamp, in the
\* order they have in the concatenation of the feeds' entries.
C7_AllViewStableSorted ==
    is_all_selected(feed_state) =>
        LET view == current_items(feeds, feed_state)
            flat == FlatMap(feeds)
        IN /\ \A i, j \in 1..Len(view) :
                  i < j /\ IsSome(view[j].published_key) =>
                      /\ IsSome(view[i].published_key)
                      /\ Unwrap(view[i].published_key) >=
                             Unwrap(view[j].published_key)
           /\ \A i \in 1..Len(flat) :
                  WithKey(view, flat[i].published_key) =
                      WithKey(flat, flat[i].published_key)
           /\ Len(view) = Len(flat)

\* C7: the view of all feeds was rendered and browsed to its end, for a
\* hand-written feed of an unparseable, a dated and an undated entry
\* followed by a feed of two dated entries, one at the same instant.
C7_Witness ==
    /\ pc = "draw"
    /\ feed_state = Some(0)
    /\ Len(feeds) = 2
    /\ feeds[1].items = <<BadDate, JanPlus1, Undated>>
    /\ feeds[2].items = <<Jan, Mar>>
    /\ item_state = Some(4)
    /\ LET view == current_items(feeds, feed_state)
       IN <<view[1].title, view[2].title, view[3].title, view[4].title,
            view[5].title>> =
              <<"March", "Offset", "January", "Bad", "Untitled">>

\* C8: for every collection the session reaches, a second upsert of the
\* same url, title and items gives the collection the first one gave.
C8_UpsertIdempotent ==
    \A u \in FeedUrls, r \in FetchOk :
        LET once == UpsertFeeds(feeds, u, r.title, r.items)
        IN UpsertFeeds(once, u, r.title, r.items) = once

\* C8: the first of two feeds, which has items, was refreshed (an upsert of
\* a url the collection holds).
C8_Witness ==
    /\ pc = "draw"
    /\ status.text = "Refreshed "
    /\ Len(feeds) = 2
    /\ feeds[1].url = status.arg
    /\ feeds[1].items # <<>>

\* C9: when the fetch of an add or a refresh fails, the collection and the
\* database file are unchanged, the status is the error, and the session
\* goes on to the next render.
C9_FetchErrorHarmless ==
    [][LET Harmless(r, sv) ==
               /\ feeds' = feeds
               /\ file' = file
               /\ status' = Status("Error: " \o r.err, <<>>)
               /\ pc' = "draw"
       IN AfterFetch(FetchErr, {"none"}, Harmless)
      ]_vars

\* C9: a fetch has failed for a session that has no database file, and
\* none was written.
C9_Witness ==
    /\ pc = "draw"
    /\ status.text = "Error: failed to parse feed"
    /\ file = Absent
    /\ feeds = <<>>

\* C10: an add, refresh or delete whose save fails leaves the loop with the
\* error, and nothing is handled after that.
C10_SaveErrorEndsSession ==
    [][LET EndedF(r, sv) == pc' = "save_error"
           EndedD(sv) == pc' = "save_error"
       IN /\ AfterFetch(FetchOk, SaveOutcomes(db_path) \ {"ok"}, EndedF)
          /\ AfterDelete(SaveOutcomes(db_path) \ {"ok"}, EndedD)
          /\ pc # "save_error"
      ]_vars

\* C10: the session has ended on a failed save, the file not holding the
\* collection in memory.
C10_Witness ==
    /\ pc = "save_error"
    /\ Persisted # feeds
    /\ Len(feeds) = 2

\* C11: a refresh key handled while feed index 0 is selected sets the status
\* to "Select a feed to refresh." (not the status of a fetch), and leaves
\* the collection, the feed and item selection and the database file as
\* they were, going on to the next render as no save was attempted.
C11_RefreshAtAllReports ==
    [][Handling("Normal") /\ feed_state = Some(0) =>
          \A k \in RefreshKeys :
              NormalRefresh(k) =>
              /\ status' = Status("Select a feed to refresh.", <<>>)
              /\ feeds' = feeds
              /\ feed_state' = feed_state
              /\ item_state' = item_state
              /\ file' = file
              /\ pc' = "draw"]_vars

\* C11: a refresh was refused with index 0 selected over two stored feeds.
C11_Witness ==
    /\ pc = "draw"
    /\ status.text = "Select a feed to refresh."
    /\ feed_state = Some(0)
    /\ Len(feeds) = 2
    /\ Persisted = feeds

\* C12: a delete key handled while feed index 0 is selected sets the status
\* to "Select a feed to delete." and changes nothing else: the collection,
\* the feed and item selection and the database file are as they were, and
\* the session goes on to the next render as no save was attempted.
C12_DeleteAtAllIsNoOp ==
    [][Handling("Normal") /\ feed_state = Some(0) =>
          \A k \in DeleteKeys :
              NormalDelete(k) =>
              /\ status' = Status("Select a feed to delete.", <<>>)
              /\ feeds' = feeds
              /\ feed_state' = feed_state
              /\ item_state' = item_state
              /\ file' = file
              /\ pc' = "draw"
              /\ UNCHANGED <<db_path, focus, mode, input>>]_vars

\* C12: a delete was refused with index 0 selected over two stored feeds.
C12_Witness ==
    /\ pc = "draw"
    /\ status.text = "Select a feed to delete."
    /\ feed_state = Some(0)
    /\ Len(feeds) = 2
    /\ Persisted = feeds

\* The buffer holds nothing but whitespace.
OnlyWhitespace(buf) == \A i \in 1..Len(buf) : IsWhitespace(buf[i])

\* C13: Enter handled in AddUrl mode with an empty or whitespace-only buffer
\* sets the status to "URL cannot be empty." (not the status of a fetch),
\* sets the mode to Normal, leaves the collection and the database file as
\* they were and goes on to the next render as no save was attempted.
C13_EmptyUrlRejected ==
    [][Handling("AddUrl") /\ OnlyWhitespace(input) =>
          \A k \in EnterKeys :
              AddUrlEnter(k) =>
              /\ status' = Status("URL cannot be empty.", <<>>)
              /\ mode' = "Normal"
              /\ feeds' = feeds
              /\ file' = file
              /\ pc' = "draw"]_vars

\* C13: an empty url was rejected (the status can be set by nothing else).
C13_Witness ==
    /\ pc = "draw"
    /\ status.text = "URL cannot be empty."
    /\ mode = "Normal"
    /\ feeds = <<>>

\* The url that the add or refresh handled in this state fetches.
FetchedUrl ==
    IF mode = "AddUrl" THEN Trim(input)
    ELSE Unwrap(selected_feed(feeds, feed_state)).url

\* C14: the add or refresh of url u with fetched title and items, whether
\* its save succeeds or not: if a feed has url u, that feed now has the new
\* title and the new items and nothing of the old ones, at the same
\* position, and the count and every other feed are unchanged; else the
\* collection is the old one with the feed (u, title, items) appended.
C14_UpsertReplacesOrAppends ==
    [][LET u == FetchedUrl
           Upserted(r, sv) ==
               LET rec == [title |-> r.title, url |-> u, items |-> r.items]
               IN IF \E i \in 1..Len(feeds) : feeds[i].url = u
                  THEN /\ Len(feeds') = Len(feeds)
                       /\ \A i \in 1..Len(feeds) :
                              feeds'[i] = IF feeds[i].url = u THEN rec
                                          ELSE feeds[i]
                  ELSE feeds' = feeds \o <<rec>>
       IN AfterFetch(FetchOk, SaveOutcomes(db_path), Upserted)
      ]_vars

\* C14: the second of two feeds was refreshed and holds the empty fetch
\* result, the first feed keeping its items.
C14_Witness ==
    /\ pc = "draw"
    /\ status.text = "Refreshed "
    /\ Len(feeds) = 2
    /\ feeds[2].url = status.arg
    /\ feeds[2].title = None
    /\ feeds[2].items = <<>>
    /\ feeds[1].items # <<>>

QuitKeys == {k \in Keys : IsChar(k, "q") \/ k.code = "Esc"}
AddKeys == {k \in Keys : IsChar(k, "a")}
EscKeys == {k \in Keys : k.code = "Esc"}
CharKeys == {k \in Keys : k.code = "Char"}
BackspaceKeys == {k \in Keys : k.code = "Backspace"}

\* C16: in Normal mode, whatever the collection, selection and focus, the
\* keys q and Esc are handled by ending the session, with the collection
\* and the database file as they were; nothing is handled after that.
C16_QuitEndsSession ==
    /\ [](Handling("Normal") => \A k \in QuitKeys : ENABLED NormalQuit(k))
    /\ [][/\ Handling("Normal") =>
                \A k \in QuitKeys :
                    NormalQuit(k) =>
                    /\ pc' = "quit"
                    /\ feeds' = feeds
                    /\ file' = file
          /\ pc # "quit"]_vars

\* C16: the session was ended with the second of two feeds selected and the
\* focus on the items.
C16_Witness ==
    /\ pc = "quit"
    /\ Len(feeds) = 2
    /\ feed_state = Some(2)
    /\ focus = "Items"
    /\ Persisted = feeds

\* C17: Esc handled in AddUrl mode empties the buffer, sets the mode to
\* Normal and the status to "Add cancelled." (not the status of a fetch),
\* goes on to the next render, and leaves the collection, the feed and item
\* selection and the database file as they were.
C17_EscCancelsAdd ==
    [][Handling("AddUrl") =>
          \A k \in EscKeys :
              AddUrlEsc(k) =>
              /\ input' = <<>>
              /\ mode' = "Normal"
              /\ status' = Status("Add cancelled.", <<>>)
              /\ pc' = "draw"
              /\ feeds' = feeds
              /\ feed_state' = feed_state
              /\ item_state' = item_state
              /\ file' = file]_vars

\* C17: an add was cancelled over two feeds, the second one selected.
C17_Witness ==
    /\ pc = "draw"
    /\ status.text = "Add cancelled."
    /\ mode = "Normal"
    /\ input = <<>>
    /\ Len(feeds) = 2
    /\ feed_state = Some(2)

\* u is s without its leading and trailing whitespace.
IsTrimOf(u, s) ==
    /\ \E i, j \in 0..Len(s) :
          /\ i + Len(u) + j = Len(s)
          /\ SubSeq(s, i + 1, i + Len(u)) = u
          /\ \A n \in 1..i : IsWhitespace(s[n])
          /\ \A n \in (Len(s) - j + 1)..Len(s) : IsWhitespace(s[n])
    /\ u # <<>> => ~IsWhitespace(u[1]) /\ ~IsWhitespace(u[Len(u)])

\* C18: Enter handled in AddUrl mode sets the mode to Normal and empties the
\* buffer, whether the url is empty, the fetch fails, the fetch and the save
\* succeed or the save fails; and when the fetch succeeds the feed upserted,
\* and named by the status after a successful save, has the url that is the
\* buffer without its leading and trailing whitespace.
C18_EnterSubmitsTrimmed ==
    [][Handling("AddUrl") =>
          \A k \in EnterKeys :
              /\ AddUrlEnter(k) => mode' = "Normal" /\ input' = <<>>
              /\ \A r \in FetchOk, sv \in SaveOutcomes(db_path) :
                     AddFetch(k, r, sv) =>
                     LET u == feeds'[Unwrap(feed_state')].url IN
                     /\ IsTrimOf(u, input)
                     /\ sv = "ok" => status' = Status("Added ", u)]_vars

\* C18: an add ended the session on a failed save (the path is not one
\* save_db supports, so the collection was empty until this add), with the
\* mode Normal and the buffer empty.
C18_Witness ==
    /\ pc = "save_error"
    /\ db_path = "txt"
    /\ Len(feeds) = 1
    /\ mode = "Normal"
    /\ input = <<>>

\* C19: the session starts in Normal mode; the key a handled in Normal mode
\* sets the mode to AddUrl, the buffer to empty and the status to the
\* prompt "Enter feed URL.", and leaves the collection, the feed and item
\* selection and the focus as they were.
C19_AddKeyOpensPrompt ==
    /\ mode = "Normal"
    /\ [][Handling("Normal") =>
             \A k \in AddKeys :
                 NormalAdd(k) =>
                 /\ mode' = "AddUrl"
                 /\ input' = <<>>
                 /\ status' = Status("Enter feed URL.", <<>>)
                 /\ feeds' = feeds
                 /\ feed_state' = feed_state
                 /\ item_state' = item_state
                 /\ focus' = focus]_vars

\* C19: the prompt was opened with the second of two feeds selected and the
\* focus on the items.
C19_Witness ==
    /\ pc = "draw"
    /\ mode = "AddUrl"
    /\ input = <<>>
    /\ status.text = "Enter feed URL."
    /\ Len(feeds) = 2
    /\ feed_state = Some(2)
    /\ focus = "Items"

\* C20: in AddUrl mode a character key without the control modifier makes
\* the buffer the old one followed by that character, a character key with
\* the modifier leaves the buffer as it was, and Backspace makes it the old
\* one without its last character (the empty buffer stays empty); the mode
\* stays AddUrl and the collection and the selection are unchanged.
C20_BufferEditing ==
    [][Handling("AddUrl") =>
          LET Kept ==
                  /\ mode' = "AddUrl"
                  /\ feeds' = feeds
                  /\ feed_state' = feed_state
                  /\ item_state' = item_state
          IN /\ \A k \in CharKeys :
                    AddUrlChar(k) =>
                    /\ Kept
                    /\ IF k.ctrl THEN input' = input
                       ELSE /\ Len(input') = Len(input) + 1
                            /\ SubSeq(input', 1, Len(input)) = input
                            /\ input'[Len(input')] = k.ch
             /\ \A k \in BackspaceKeys :
                    AddUrlBackspace(k) =>
                    /\ Kept
                    /\ IF input = <<>> THEN input' = <<>>
                       ELSE /\ Len(input') = Len(input) - 1
                            /\ \A i \in 1..Len(input') :
                                   input'[i] = input[i]]_vars

\* C20: the buffer was typed up to "q q" (a render since).
C20_Witness ==
    /\ pc = "poll"
    /\ mode = "AddUrl"
    /\ input = <<"q", " ", "q">>
    /\ Len(feeds) = 2
    /\ feed_state = Some(1)

\* C21: a movement key handled with the focus on the item pane sets the item
\* selection to none if the item view is empty, and else to
\* clamp(current + delta, 0, view length - 1) with current 0 when the
\* selection was none, for delta -5, -1, 1 and 5; the feed index is as it
\* was.
C21_ItemMoveClamps ==
    [][Handling("Normal") /\ focus = "Items" =>
          \A k \in MoveKeys :
              NormalMove(k) =>
              LET n == Len(current_items(feeds, feed_state)) IN
              /\ item_state' =
                    IF n = 0 THEN None
                    ELSE Some(Clamp(UnwrapOr(item_state, 0) + Delta(k), 0,
                                    n - 1))
              /\ feed_state' = feed_state]_vars

\* C21: the item selection was moved to the last of the four items of the
\* view of all feeds (only a move on the item pane goes past the first).
C21_Witness ==
    /\ pc = "draw"
    /\ focus = "Items"
    /\ feed_state = Some(0)
    /\ Len(current_items(feeds, feed_state)) = 4
    /\ item_state = Some(3)

FocusKeys == {k \in Keys : k.code \in {"Tab", "Right", "Left"}}

\* C22: in Normal mode Tab and Right set the focus to the item pane and Left
\* sets it to the feed pane, whatever it was, and the feed index, the item
\* index, the collection, the mode, the buffer, the status and the database
\* file are as they were.
C22_FocusKeys ==
    [][Handling("Normal") =>
          \A k \in FocusKeys :
              NormalFocus(k) =>
              /\ focus' = IF k.code = "Left" THEN "Feeds" ELSE "Items"
              /\ UNCHANGED <<feed_state, item_state, feeds, mode, input,
                             status, file>>
              /\ pc' = "draw"]_vars

\* C22: the focus was set to the item pane (the session starts with it on
\* the feed pane), with the second of two feeds and its second item
\* selected and the status still the initial one.
C22_Witness ==
    /\ pc = "draw"
    /\ focus = "Items"
    /\ status.text = ""
    /\ mode = "Normal"
    /\ Len(feeds) = 2
    /\ feed_state = Some(2)
    /\ item_state = Some(1)

\* The keys that handle_normal is said to act on.
NamedNormalKeys ==
    {k \in Keys :
        \/ k.code \in {"Esc", "Tab", "Right", "Left", "Up", "Down", "PageUp",
                       "PageDown"}
        \/ k.code = "Char" /\ k.ch \in {"q", "a", "r", "d", "k", "j"}}

\* C23: in Normal mode a key other than q, Esc, a, r, d, Tab, Right, Left,
\* Up, Down, k, j, PageUp and PageDown is handled, by leaving the collection,
\* the selections, the focus, the mode, the buffer, the status and the
\* database file as they were and going on to the next render; and a
\* movement key is handled by going on to the next render too, wherever the
\* selection is.
C23_OtherKeysIgnored ==
    /\ [](Handling("Normal") =>
             \A k \in (Keys \ NamedNormalKeys) \cup MoveKeys :
                 ENABLED handle_normal(k))
    /\ [][Handling("Normal") =>
             /\ \A k \in Keys \ NamedNormalKeys :
                    handle_normal(k) =>
                    /\ UNCHANGED <<db_path, file, feeds, feed_state,
                                   item_state, focus, mode, input, status>>
                    /\ pc' = "draw"
             /\ \A k \in MoveKeys : NormalMove(k) => pc' = "draw"]_vars

\* C23: the loop is back at the render with the session as its first render
\* left it, which is what an ignored key leaves.
C23_Witness ==
    /\ pc = "draw"
    /\ mode = "Normal"
    /\ status.text = ""
    /\ focus = "Feeds"
    /\ Len(feeds) = 1
    /\ feed_state = Some(0)
    /\ item_state = Some(0)

\* C24: in every state of the session the feed index is defined and is
\* between 0 and the number of feeds; it is 0 when the collection is empty.
C24_FeedIndexInRange ==
    /\ IsSome(feed_state)
    /\ Unwrap(feed_state) \in 0..Len(feeds)
    /\ feeds = <<>> => feed_state = Some(0)

\* C24: the only feed was deleted and the feed index is 0.
C24_Witness ==
    /\ pc = "draw"
    /\ status.text = "Removed "
    /\ feeds = <<>>
    /\ feed_state = Some(0)
    /\ focus = "Items"

\* C25: whenever a key is about to be handled (the render of this loop
\* iteration is done), the item selection is none if the item view of the
\* selected feed is empty and else an index below the view's length.
C25_ValidSelectionAtKey ==
    pc = "poll" =>
        LET n == Len(current_items(feeds, feed_state)) IN
        /\ ValidItemSelection(item_state, n)
        /\ item_state = None <=> n = 0

\* C25: a feed was deleted and the feed that is selected since has no
\* entries; the render that followed has set the item selection to none,
\* and the next key is awaited.
C25_Witness ==
    /\ pc = "poll"
    /\ status.text = "Removed "
    /\ Len(feeds) = 1
    /\ feed_state = Some(1)
    /\ feeds[1].items = <<>>
    /\ item_state = None

\* The places <<feed, entry>> of the entries of all feeds of fs.
Entries(fs) ==
    UNION {{<<i, j>> : j \in 1..Len(fs[i].items)} : i \in 1..Len(fs)}

\* The number of entries of all feeds of fs.
TotalEntries(fs) == Cardinality(Entries(fs))

\* The number of times x occurs in s.
Occurrences(s, x) == Cardinality({i \in 1..Len(s) : s[i] = x})

\* C26: for the collection of the session and every feed index,
\* current_items_count is the length of current_items: the number of
\* entries of the selected feed for an index from 1, and the number of
\* entries of all feeds for index 0, where the view holds every entry of
\* every feed as often as the collection does.
C26_CountIsViewLength ==
    \A index \in 0..Len(feeds) :
        LET fsel == Some(index)
            view == current_items(feeds, fsel)
            count == current_items_count(feeds, fsel)
        IN /\ count = Len(view)
           /\ index >= 1 => count = Len(feeds[index].items)
           /\ index = 0 =>
                 /\ count = TotalEntries(feeds)
                 /\ \A e \in Entries(feeds) :
                        LET Shown(p) ==
                                DisplayItem(feeds[p[1]], feeds[p[1]].items[p[2]])
                        IN Occurrences(view, Shown(e)) =
                               Cardinality({p \in Entries(feeds) :
                                               Shown(p) = Shown(e)})

\* C26: the last of the three entries of a hand-written feed was reached
\* with the movement keys, which go as far as the count lets them.
C26_Witness ==
    /\ pc = "draw"
    /\ focus = "Items"
    /\ Len(feeds) = 2
    /\ feed_state = Some(1)
    /\ feeds[1].items = <<BadDate, JanPlus1, Undated>>
    /\ item_state = Some(2)

\* C27: a key handled in AddUrl mode never ends the session as a quit does:
\* the session goes on to the next render, q being appended to the buffer
\* and Esc setting the mode to Normal, or it ends with the error of the save
\* that followed a successful fetch of the Enter arm.
C27_AddUrlNeverQuits ==
    [][Handling("AddUrl") =>
          \A k \in Keys :
              handle_add_url(k) =>
              /\ pc' \in {"draw", "save_error"}
              /\ pc' = "save_error" =>
                    /\ k.code = "Enter"
                    /\ \E r \in FetchOk, sv \in SaveOutcomes(db_path) \ {"ok"} :
                           AddFetch(k, r, sv)
              /\ IsChar(k, "q") /\ ~k.ctrl =>
                    input' = Append(input, "q") /\ pc' = "draw"
              /\ k.code = "Esc" => mode' = "Normal" /\ pc' = "draw"]_vars

\* C27: q was typed twice into the buffer and the session goes on.
C27_Witness ==
    /\ pc = "draw"
    /\ mode = "AddUrl"
    /\ input = <<"q", "q">>
    /\ Len(feeds) = 1

\* C28: Esc is handled in every state in which a key is awaited; in AddUrl
\* mode it sets the mode to Normal and goes on, in Normal mode it ends the
\* session, and both leave the collection and the database file as they
\* were, as do the render and the idle poll between two keys, which leave
\* the mode too: so two Esc keys in a row end the session from every state,
\* one from Normal mode.
C28_TwoEscapesQuit ==
    /\ [](\A k \in EscKeys :
             /\ Handling("AddUrl") => ENABLED AddUrlEsc(k)
             /\ Handling("Normal") => ENABLED NormalQuit(k))
    /\ [][/\ Handling("AddUrl") =>
                \A k \in EscKeys :
                    AddUrlEsc(k) =>
                    /\ mode' = "Normal"
                    /\ pc' = "draw"
                    /\ feeds' = feeds
                    /\ file' = file
          /\ Handling("Normal") =>
                \A k \in EscKeys :
                    NormalQuit(k) =>
                    /\ pc' = "quit"
                    /\ feeds' = feeds
                    /\ file' = file
          /\ Draw \/ PollIdle =>
                /\ UNCHANGED <<mode, feeds, file>>
                /\ pc' \in {"draw", "poll"}]_vars

\* C28: the session was ended while the status was still that of the
\* cancelled add, the file holding the two feeds of the collection.
C28_Witness ==
    /\ pc = "quit"
    /\ status.text = "Add cancelled."
    /\ Len(feeds) = 2
    /\ Persisted = feeds

\* C29: a delete key handled with feed index i from 1 removes the feed at
\* position i - 1 (from 0): the collection is one feed shorter, the feeds
\* before it are as they were and those after it follow in their order;
\* the delete is never left out because of the range test.
C29_DeleteRemovesSelected ==
    [][Handling("Normal") /\ IsSome(feed_state) /\ Unwrap(feed_state) >= 1 =>
          \A k \in DeleteKeys :
              NormalDelete(k) =>
              LET i == Unwrap(feed_state) IN
              /\ Len(feeds') = Len(feeds) - 1
              /\ \A j \in 1..Len(feeds') :
                     feeds'[j] = IF j < i THEN feeds[j] ELSE feeds[j + 1]]_vars

\* C29: a feed was deleted and the feed of two entries is the one left,
\* its second entry still selected.
C29_Witness ==
    /\ pc = "draw"
    /\ status.text = "Removed "
    /\ Len(feeds) = 1
    /\ Len(feeds[1].items) = 2
    /\ feeds[1].url # status.arg
    /\ item_state = Some(1)

\* C30: a movement key leaves the collection, the mode, the focus, the
\* buffer, the status and the database file as they were and goes on to the
\* next render (no fetch and no save took place); with the focus on the
\* item pane it leaves the feed index too.
C30_MoveKeysFrame ==
    [][Handling("Normal") =>
          \A k \in MoveKeys :
              NormalMove(k) =>
              /\ UNCHANGED <<feeds, mode, focus, input, status, file, db_path>>
              /\ pc' = "draw"
              /\ focus = "Items" => feed_state' = feed_state]_vars

\* C30: the item selection was moved on the item pane of the first of two
\* feeds, the status still the initial one.
C30_Witness ==
    /\ pc = "draw"
    /\ mode = "Normal"
    /\ focus = "Items"
    /\ status.text = ""
    /\ Len(feeds) = 2
    /\ feed_state = Some(1)
    /\ item_state = Some(1)
    /\ Persisted = feeds

====
